---- MODULE Spec2Model ----
(***************************************************************************)
(* HALockController (ha/lock.go): the acquire / renew / lose-lease loop of *)
(* Start, run by several controllers against one shared lock backend.     *)
(* The backend and the protected task are the ones of ha/lock_test.go      *)
(* (mockLock, mockService). In Spec, FairSpec and LiveSpec time is          *)
(* abstracted: a timer or ticker may fire at any moment, and a lease may   *)
(* pass its duration at any moment. In TimedSpec and PolicySpec a clock    *)
(* runs, timers and tickers fire when they are due, and calls take no time.*)
(***************************************************************************)
EXTENDS Integers, Sequences, FiniteSets, TLC

\* The controllers sharing the backend (the IDs of the test's instances).
Ctrls == {"hac1", "hac2"}

\* The lock has no holder.
NoHolder == "none"

\* acquiresCalls and renewsCounter stop counting at these values.
MaxAcquires == 2
MaxRenews == 1
\* Grants of the lock in one run: the leadership episodes (funcCtx /
\* protectedFunc pairs) of all controllers together.
MaxGrants == 2
\* The clock of a timed run stops at MaxTime (PolicyTime in PolicySpec).
MaxTime == 30
PolicyTime == 3
\* The leases NewHALockController is given in PolicySpec: 1..MaxLease.
MaxLease == 12

\* testLease (in the unit of the clock) and the randomDelay of hac2 in
\* TestAcquireLock_MultipleInstances.
testLease == 10
hac2Delay == 6

VARIABLES
    pc,             \* pc[c]: where controller c's Start is
    ctxDone,        \* ctxDone[c]: c's governing context is canceled
    ret,            \* ret[c]: what Start returned ("none" while it runs)
    err,            \* err[c]: Start's local err of this loop iteration's Acquire
    funcCtx,        \* funcCtx[c][i]: cancel() was called on episode i's context
    task,           \* task[c][i]: the protectedFunc goroutine of episode i
    lockHolder,     \* mockLock.locked, with the caller it was granted to
    expired,        \* time.Since(leaseStartTime) > testLease
    acquiresCalls,  \* mockLock.acquiresCalls
    renewsCounter,  \* mockLock.renewsCounter
    startsCounter,  \* mockService.startsCounter
    leaseStartTime, \* mockLock.leaseStartTime
    now,            \* the clock (time.Now)
    timer,          \* timer[c]: when the timer or ticker c waits for fires
    run             \* what a run keeps and allows: run.counting, the test
                    \* reads acquiresCalls and renewsCounter (they are not
                    \* kept when it does not); run.grants, the grants of
                    \* the lock the run allows; run.timed, the clock
                    \* runs, up to run.horizon; run.faulty, backend calls
                    \* may fail; and the fields the controllers are built
                    \* with: run.lease, run.renewalPeriod, run.waitPeriod,
                    \* run.randomDelay

vars == <<pc, ctxDone, ret, err, funcCtx, task, lockHolder, expired,
          acquiresCalls, renewsCounter, startsCounter, leaseStartTime, now,
          timer, run>>

ctlVars == <<pc, ctxDone, ret, err, funcCtx, run>>
lockVars == <<lockHolder, expired, acquiresCalls, renewsCounter, leaseStartTime>>
svcVars == <<startsCounter>>

\* HALockController.renewalPeriod, waitPeriod and randomDelay.
renewalPeriod == run.renewalPeriod
waitPeriod == run.waitPeriod
randomDelay(c) == run.randomDelay[c]

Min(a, b) == IF a < b THEN a ELSE b

\* A call counter after one more call (a timed run ends with its clock, and
\* counts every call).
Count(n, max) ==
    IF ~run.counting THEN n
    ELSE IF run.timed THEN n + 1 ELSE Min(n + 1, max)

\* NewTimer(d), NewTicker(d): c's timer or ticker next fires d from now.
Arm(c, d) == timer' = [timer EXCEPT ![c] = IF run.timed THEN now + d ELSE @]

\* The timer or ticker c waits for has fired.
Due(c) == run.timed => timer[c] <= now

\* time.Now() as the backend reads it.
Stamp == leaseStartTime' = IF run.timed THEN now ELSE leaseStartTime

\* mockLock.Renew, line 66: time.Since(ml.leaseStartTime) > testLease.
Expired == IF run.timed THEN now - leaseStartTime > run.lease ELSE expired

\* mockLock.locked
locked == lockHolder # NoHolder

\* The context of episode i of controller c is canceled: by its own cancel(),
\* or as a child of the governing context.
Canceled(c, i) == funcCtx[c][i] \/ ctxDone[c]

\* Controller c is in a leadership episode: inside maintainLease.
Leading(c) == pc[c] = "maintain"

\* A protectedFunc goroutine that was started and has not returned.
Live(c, i) == task[c][i] = "running"

\* The live protectedFunc goroutines of controller c.
LiveTasks(c) == {i \in DOMAIN task[c] : Live(c, i)}

RECURSIVE SumLen(_, _)
SumLen(f, S) ==
    IF S = {} THEN 0
    ELSE LET c == CHOOSE x \in S : TRUE IN Len(f[c]) + SumLen(f, S \ {c})

\* The episodes opened so far.
Episodes == SumLen(funcCtx, Ctrls)

\* The controllers as NewHALockController and the test build them, each about
\* to enter Start, and the mock backend unlocked.
NewHALockController ==
    /\ pc = [c \in Ctrls |-> "startWait"]
    /\ ctxDone = [c \in Ctrls |-> FALSE]
    /\ ret = [c \in Ctrls |-> "none"]
    /\ err = [c \in Ctrls |-> FALSE]
    /\ funcCtx = [c \in Ctrls |-> <<>>]
    /\ task = [c \in Ctrls |-> <<>>]
    /\ lockHolder = NoHolder
    /\ expired = FALSE
    /\ acquiresCalls = [c \in Ctrls |-> 0]
    /\ renewsCounter = 0
    /\ startsCounter = 0
    /\ leaseStartTime = 0
    /\ timer = [c \in Ctrls |-> run.randomDelay[c]]

\* NewHALockController with renewalFactor (0.7) taken for waitFactor.
RenewalAsWait(lease) == (11 * lease) \div 10

\* NewHALockController, line 41: time.Duration(float64(lease) * renewalFactor),
\* the float64 product truncated (for a lease below 90 the product of the
\* float64 nearest to 0.7 truncates to the integer part of 7/10 of the lease).
RenewalOf(lease) == (7 * lease) \div 10

\* NewHALockController, line 42: time.Duration(float64(lease) * waitFactor).
WaitOf(lease) == (11 * lease) \div 10

\* The controllers of TestAcquireLock_MultipleInstances, lines 107-123.
TestControllers ==
    [lease |-> testLease,
     renewalPeriod |-> RenewalOf(testLease),
     waitPeriod |-> WaitOf(testLease),
     randomDelay |-> [c \in Ctrls |-> IF c = "hac1" THEN 0 ELSE hac2Delay]]

\* A run without a clock.
Untimed(counting, grants) ==
    /\ now = 0
    /\ run = [counting |-> counting, grants |-> grants, timed |-> FALSE,
              horizon |-> 0, faulty |-> TRUE] @@ TestControllers

Init == Untimed(TRUE, MaxGrants) /\ NewHALockController

\* The same start, the call counters not kept.
LiveInit == Untimed(FALSE, MaxGrants) /\ NewHALockController

\* The same, with one more grant allowed.
LongInit == Untimed(FALSE, MaxGrants + 1) /\ NewHALockController

\* The test's controllers under a clock; the backend is the mock alone or
\* the mock with failures, and hac2 may have no startup delay.
TimedInit ==
    /\ now = 0
    /\ \E faulty \in BOOLEAN, d \in {0, hac2Delay} :
          run = [counting |-> TRUE, grants |-> MaxGrants, timed |-> TRUE,
                 horizon |-> MaxTime, faulty |-> faulty]
                @@ [TestControllers EXCEPT !.randomDelay["hac2"] = d]
    /\ NewHALockController

\* Controllers built by NewHALockController for a lease of 1..MaxLease, under
\* a clock.
PolicyInit ==
    /\ now = 0
    /\ \E lease \in 1..MaxLease :
          run = [counting |-> TRUE, grants |-> MaxGrants, timed |-> TRUE,
                 horizon |-> PolicyTime, faulty |-> TRUE,
                 lease |-> lease,
                 renewalPeriod |-> RenewalOf(lease),
                 waitPeriod |-> WaitOf(lease),
                 randomDelay |-> [c \in Ctrls |-> 0]]
    /\ NewHALockController

\* wait returning at once, whether or not its timer has fired.
waitNoTimer(c, at, next) ==
    /\ pc[c] = at
    /\ pc' = [pc EXCEPT ![c] = next]

\* hc.wait(ctx): returns when the timer fires or when ctx is canceled; the
\* caller cannot tell which.
wait(c, at, next) ==
    /\ pc[c] = at
    /\ \E woken \in {"timer", "done"} :
          IF woken = "done" THEN ctxDone[c] ELSE Due(c)
    /\ pc' = [pc EXCEPT ![c] = next]

\* Start, line 55: the startup jitter wait, then the first loop iteration.
StartWait(c) ==
    /\ wait(c, "startWait", "acquire")
    /\ UNCHANGED <<ctxDone, ret, err, funcCtx, task, lockVars, svcVars, now,
                   timer, run>>

\* mockLock.Acquire, with the failures the lock interface allows: the
\* results (token, err) a call by c can have, and whether the lock was granted.
AcquireResults(c) ==
    LET mock == IF locked
                THEN [token |-> "", err |-> FALSE, granted |-> FALSE]
                ELSE [token |-> "lockID", err |-> FALSE, granted |-> TRUE]
        failed == {[token |-> "", err |-> TRUE, granted |-> FALSE]}
                  \cup (IF locked THEN {}
                        ELSE {[token |-> "lockID", err |-> TRUE, granted |-> TRUE]})
    IN  {r \in {mock} \cup (IF run.faulty THEN failed ELSE {}) :
            r.granted => Episodes < run.grants}

\* GotLock testing the error instead of the token (if err == nil).
GotLockOnNoError(r) == ~r.err

\* Start, line 68: the token alone decides whether an episode begins.
GotLock(r) == r.token # ""

\* Start, lines 69-78: the new episode context, the protectedFunc goroutine
\* (mockService.Run, lines 84-85: it counts its start and blocks on its
\* context) and the entry into maintainLease, where NewTicker (line 102)
\* panics when renewalPeriod is not positive.
\* BeginEpisode without the go statement.
BeginEpisodeNoTask(c) ==
    /\ funcCtx' = [funcCtx EXCEPT ![c] = Append(@, FALSE)]
    /\ pc' = [pc EXCEPT ![c] = "maintain"]
    /\ UNCHANGED <<ret, task, startsCounter>>

BeginEpisode(c) ==
    /\ funcCtx' = [funcCtx EXCEPT ![c] = Append(@, FALSE)]
    /\ task' = [task EXCEPT ![c] = Append(@, "running")]
    /\ startsCounter' = startsCounter + 1
    /\ pc' = [pc EXCEPT ![c] = IF renewalPeriod > 0 THEN "maintain" ELSE "panic"]
    /\ UNCHANGED ret

\* NoLock returning the Acquire error to Start's caller.
NoLockReturnsError(c, r) ==
    /\ pc' = [pc EXCEPT ![c] = IF r.err THEN "done" ELSE "retryWait"]
    /\ ret' = [ret EXCEPT ![c] = IF r.err THEN "err" ELSE @]
    /\ UNCHANGED <<funcCtx, task, startsCounter>>

\* NoLock starting the protected task although the token is empty.
NoLockStartsTask(c, r) ==
    /\ task' = [task EXCEPT ![c] = Append(@, "running")]
    /\ funcCtx' = [funcCtx EXCEPT ![c] = Append(@, TRUE)]
    /\ startsCounter' = startsCounter + 1
    /\ pc' = [pc EXCEPT ![c] = "retryWait"]
    /\ UNCHANGED ret

\* Start, lines 63-66 and 88-91: without a token the error, if any, is only
\* logged, and the loop goes to its waitPeriod tick.
NoLock(c, r) ==
    /\ pc' = [pc EXCEPT ![c] = "retryWait"]
    /\ UNCHANGED <<ret, funcCtx, task, startsCounter>>

\* Start, lines 60-91: an Acquire call with result r and what the loop does
\* with the result.
AcquireStep(c, r) ==
    /\ pc[c] = "acquire"
    /\ acquiresCalls' = [acquiresCalls EXCEPT ![c] = Count(@, MaxAcquires)]
    /\ IF r.granted
       THEN lockHolder' = c /\ expired' = FALSE /\ Stamp
       ELSE UNCHANGED <<lockHolder, expired, leaseStartTime>>
    /\ err' = [err EXCEPT ![c] = r.err]
    /\ IF GotLock(r) THEN BeginEpisode(c) ELSE NoLock(c, r)
    /\ Arm(c, IF GotLock(r) THEN renewalPeriod ELSE waitPeriod)
    /\ UNCHANGED <<ctxDone, renewsCounter, now, run>>

\* Start, lines 60-91: one Acquire call, whatever its result.
AcquireCall(c) == \E r \in AcquireResults(c) : AcquireStep(c, r)

\* An Acquire call that the backend answers without an error.
AcquireAnswered(c) == \E r \in AcquireResults(c) : ~r.err /\ AcquireStep(c, r)

\* mockLock.Renew, with the failure the lock interface allows: the outcomes a
\* call can have.
RenewResults ==
    LET mock == IF ~locked THEN "notLocked"
                ELSE IF Expired THEN "leaseLost" ELSE "renewed"
    IN  {mock} \cup (IF run.faulty THEN {"failed"} ELSE {})

\* EndEpisode without the call of cancel().
EndEpisodeNoCancel(c) ==
    /\ UNCHANGED funcCtx
    /\ pc' = [pc EXCEPT ![c] = "lostWait"]

\* EndEpisode without the jitter wait.
EndEpisodeNoWait(c) ==
    /\ funcCtx' = [funcCtx EXCEPT ![c][Len(funcCtx[c])] = TRUE]
    /\ pc' = [pc EXCEPT ![c] = "retryWait"]

\* Start, lines 79-84: maintainLease returned an error; cancel() ends the
\* episode's context and the jitter wait begins.
EndEpisode(c) ==
    /\ funcCtx' = [funcCtx EXCEPT ![c][Len(funcCtx[c])] = TRUE]
    /\ pc' = [pc EXCEPT ![c] = "lostWait"]

\* RenewTick calling Acquire itself when the renewal fails, the episode going
\* on.
RenewTickReacquires(c) ==
    /\ pc[c] = "maintain"
    /\ acquiresCalls' = [acquiresCalls EXCEPT ![c] = Count(@, MaxAcquires)]
    /\ lockHolder' = c
    /\ expired' = FALSE
    /\ UNCHANGED <<ctlVars, task, renewsCounter, svcVars, leaseStartTime, now,
                   timer>>

\* maintainLease, lines 110-115, and Start, lines 78-84: a renewal tick. A
\* failed Renew ends the episode.
RenewTick(c) ==
    /\ pc[c] = "maintain"
    /\ Due(c)
    /\ \E r \in RenewResults :
        /\ CASE r = "renewed" ->
                  /\ expired' = FALSE
                  /\ Stamp
                  /\ renewsCounter' = Count(renewsCounter, MaxRenews)
                  /\ UNCHANGED lockHolder
             [] r = "leaseLost" ->
                  /\ lockHolder' = NoHolder
                  /\ UNCHANGED <<expired, renewsCounter, leaseStartTime>>
             [] OTHER ->
                  UNCHANGED <<lockHolder, expired, renewsCounter, leaseStartTime>>
        /\ IF r = "renewed"
           THEN UNCHANGED <<pc, funcCtx, err>>
           ELSE EndEpisode(c) /\ err' = [err EXCEPT ![c] = FALSE]
        /\ Arm(c, IF r = "renewed" THEN renewalPeriod ELSE randomDelay(c))
    /\ UNCHANGED <<ctxDone, ret, task, acquiresCalls, svcVars, now, run>>

\* maintainLease never taking the case of the canceled context.
MaintainIgnoresCancel(c) ==
    /\ pc[c] = "maintain"
    /\ ctxDone[c]
    /\ UNCHANGED vars

\* MaintainCancel releasing the lock on its way out.
MaintainCancelReleases(c) ==
    /\ pc[c] = "maintain"
    /\ ctxDone[c]
    /\ pc' = [pc EXCEPT ![c] = "retryWait"]
    /\ err' = [err EXCEPT ![c] = FALSE]
    /\ lockHolder' = NoHolder
    /\ UNCHANGED <<ctxDone, ret, funcCtx, task, expired, acquiresCalls,
                   renewsCounter, svcVars, leaseStartTime, now, timer, run>>

\* maintainLease, lines 106-108, and Start, lines 78-91: the governing context
\* is canceled during an episode; maintainLease returns nil.
MaintainCancel(c) ==
    /\ pc[c] = "maintain"
    /\ ctxDone[c]
    /\ pc' = [pc EXCEPT ![c] = "retryWait"]
    /\ err' = [err EXCEPT ![c] = FALSE]
    /\ Arm(c, waitPeriod)
    /\ UNCHANGED <<ctxDone, ret, funcCtx, task, lockVars, svcVars, now, run>>

\* LostWait with a timer that never fires.
LostWaitOnlyOnCancel(c) ==
    /\ pc[c] = "lostWait"
    /\ ctxDone[c]
    /\ pc' = [pc EXCEPT ![c] = "retryWait"]
    /\ UNCHANGED <<ctxDone, ret, err, funcCtx, task, lockVars, svcVars, now,
                   timer, run>>

\* Start, line 84: the jitter wait after a lost lease.
LostWait(c) ==
    /\ wait(c, "lostWait", "retryWait")
    /\ Arm(c, waitPeriod)
    /\ UNCHANGED <<ctxDone, ret, err, funcCtx, task, lockVars, svcVars, now, run>>

\* Start, lines 88-97: the waitPeriod tick; the loop goes round. The ticker
\* was started anew right before the select, so once the governing context is
\* canceled the tick is not the case the select takes.
RetryTick(c) ==
    /\ pc[c] = "retryWait"
    /\ ~ctxDone[c]
    /\ Due(c)
    /\ pc' = [pc EXCEPT ![c] = "acquire"]
    /\ err' = [err EXCEPT ![c] = FALSE]
    /\ UNCHANGED <<ctxDone, ret, funcCtx, task, lockVars, svcVars, now, timer,
                   run>>

\* Start, lines 92-94: the governing context is canceled; Start returns nil
\* and the deferred cancel() of every episode runs.
RetryCancel(c) ==
    /\ pc[c] = "retryWait"
    /\ ctxDone[c]
    /\ pc' = [pc EXCEPT ![c] = "done"]
    /\ ret' = [ret EXCEPT ![c] = "nil"]
    /\ funcCtx' = [funcCtx EXCEPT ![c] = [i \in DOMAIN @ |-> TRUE]]
    /\ err' = [err EXCEPT ![c] = FALSE]
    /\ UNCHANGED <<ctxDone, task, lockVars, svcVars, now, timer, run>>

\* Cancel starting a returned Start again.
CancelRestarts(c) ==
    /\ ctxDone' = [ctxDone EXCEPT ![c] = TRUE]
    /\ pc' = [pc EXCEPT ![c] = IF @ = "done" THEN "startWait" ELSE @]
    /\ UNCHANGED <<ret, err, funcCtx, task, lockVars, svcVars, now, timer, run>>

\* Cancel on one context that all controllers share.
CancelAll(c) ==
    /\ ctxDone' = [d \in Ctrls |-> TRUE]
    /\ UNCHANGED <<pc, ret, err, funcCtx, task, lockVars, svcVars, now, timer,
                   run>>

\* The caller cancels c's governing context (hac1Cancel, testCancel).
Cancel(c) ==
    /\ ctxDone' = [ctxDone EXCEPT ![c] = TRUE]
    /\ UNCHANGED <<pc, ret, err, funcCtx, task, lockVars, svcVars, now, timer,
                   run>>

\* mockService.Run, lines 87-88: the goroutine sees its context canceled and
\* returns.
TaskEnd(c, i) ==
    /\ task[c][i] = "running"
    /\ Canceled(c, i)
    /\ task' = [task EXCEPT ![c][i] = "returned"]
    /\ UNCHANGED <<ctlVars, lockVars, startsCounter, now, timer>>

\* mockLock.Renew, line 66: the lease duration passes without a renewal.
LeaseExpire ==
    /\ ~run.timed
    /\ locked
    /\ ~expired
    /\ expired' = TRUE
    /\ UNCHANGED <<ctlVars, task, lockHolder, acquiresCalls, renewsCounter,
                   svcVars, leaseStartTime, now, timer>>

\* The test's "Stop hac1 and release the lock": once the holder's governing
\* context is canceled, the lock is released from outside.
Release ==
    /\ locked
    /\ ctxDone[lockHolder]
    /\ lockHolder' = NoHolder
    /\ renewsCounter' = 0
    /\ UNCHANGED <<ctlVars, task, expired, acquiresCalls, svcVars,
                   leaseStartTime, now, timer>>

Next ==
    \/ \E c \in Ctrls : StartWait(c)
    \/ \E c \in Ctrls : AcquireCall(c)
    \/ \E c \in Ctrls : RenewTick(c)
    \/ \E c \in Ctrls : MaintainCancel(c)
    \/ \E c \in Ctrls : LostWait(c)
    \/ \E c \in Ctrls : RetryTick(c)
    \/ \E c \in Ctrls : RetryCancel(c)
    \/ \E c \in Ctrls : Cancel(c)
    \/ \E c \in Ctrls : \E i \in DOMAIN task[c] : TaskEnd(c, i)
    \/ LeaseExpire
    \/ Release

Spec == Init /\ [][Next]_vars

\* Controller c has a step to take at this instant: a call to make, a timer
\* or ticker that is due, or a canceled context to see.
Ready(c) ==
    \/ pc[c] = "acquire"
    \/ /\ pc[c] \in {"startWait", "maintain", "lostWait", "retryWait"}
       /\ timer[c] <= now \/ ctxDone[c]

\* Time passes, when no controller has a step to take at this instant and no
\* task has a canceled context to see (mockService.Run returns at once).
Tick ==
    /\ run.timed
    /\ now < run.horizon
    /\ \A c \in Ctrls : ~Ready(c)
    /\ \A c \in Ctrls : \A i \in LiveTasks(c) : ~Canceled(c, i)
    /\ now' = now + 1
    /\ UNCHANGED <<ctlVars, task, lockVars, svcVars, timer>>

\* The steps of a run under a clock; the lease passes its duration by the
\* clock.
TimedNext ==
    \/ \E c \in Ctrls : StartWait(c)
    \/ \E c \in Ctrls : AcquireCall(c)
    \/ \E c \in Ctrls : RenewTick(c)
    \/ \E c \in Ctrls : MaintainCancel(c)
    \/ \E c \in Ctrls : LostWait(c)
    \/ \E c \in Ctrls : RetryTick(c)
    \/ \E c \in Ctrls : RetryCancel(c)
    \/ \E c \in Ctrls : Cancel(c)
    \/ \E c \in Ctrls : \E i \in DOMAIN task[c] : TaskEnd(c, i)
    \/ Release
    \/ Tick

TimedSpec == TimedInit /\ [][TimedNext]_vars

PolicySpec == PolicyInit /\ [][TimedNext]_vars

\* A step of controller c outside an episode that a fired timer or ticker, or
\* a returned Acquire call, lets it take; at each place of Start at most one
\* of these is enabled. (Nothing is asked of the renewal ticks: a leader may
\* renew for ever.)
Progress(c) ==
    \/ StartWait(c)
    \/ AcquireCall(c)
    \/ LostWait(c)
    \/ RetryTick(c)

\* What the scheduling gives each controller: a timer or ticker it waits for
\* outside an episode fires, an Acquire call it makes returns, and a select
\* whose cancellation case stays ready takes it in the end (a select chooses
\* among its ready cases uniformly at random).
Fairness ==
    \A c \in Ctrls :
        /\ WF_vars(Progress(c))
        /\ WF_vars(MaintainCancel(c))
        /\ WF_vars(RetryCancel(c))

FairSpec == LiveInit /\ [][Next]_vars /\ Fairness

\* FairSpec with a backend that is not for ever unreachable: a controller that
\* calls Acquire again and again is answered without an error in the end.
LiveSpec ==
    /\ LongInit /\ [][Next]_vars /\ Fairness
    /\ \A c \in Ctrls : SF_vars(AcquireAnswered(c))

TypeOK ==
    /\ pc \in [Ctrls -> {"startWait", "acquire", "maintain", "lostWait", "retryWait",
                         "done", "panic"}]
    /\ ctxDone \in [Ctrls -> BOOLEAN]
    /\ ret \in [Ctrls -> {"none", "nil"}]
    /\ err \in [Ctrls -> BOOLEAN]
    /\ \A c \in Ctrls : Len(funcCtx[c]) = Len(task[c])
    /\ Episodes <= run.grants /\ startsCounter = Episodes
    /\ lockHolder \in Ctrls \cup {NoHolder}
    /\ expired \in BOOLEAN
    /\ acquiresCalls \in [Ctrls -> Nat] /\ renewsCounter \in Nat
    /\ ~run.timed =>
          /\ \A c \in Ctrls : acquiresCalls[c] <= MaxAcquires
          /\ renewsCounter <= MaxRenews
    /\ leaseStartTime \in 0..now /\ now \in 0..run.horizon
    /\ timer \in [Ctrls -> Nat]

\* The last episode of c ended by cancel(), that is by a failed Renew.
LostLease(c) == Len(funcCtx[c]) > 0 /\ funcCtx[c][Len(funcCtx[c])]

-----------------------------------------------------------------------------
\* C1 as stated: in every reachable state at most one controller is Leading.
C1_MutualExclusion == Cardinality({c \in Ctrls : Leading(c)}) <= 1

\* C1, amended: a controller becomes Leading only in the step in which the
\* backend grants it a lock that no controller held; two controllers are
\* Leading together only when the lock of one of them was released or dropped
\* at the backend and that one has not yet left maintainLease.
C1_LeadsOnlyOnGrant ==
    [][\A c \in Ctrls :
         (~Leading(c) /\ Leading(c)') => (~locked /\ lockHolder' = c)]_vars

\* Two controllers are Leading, one of them holding the lock.
C1_Witness ==
    \E c, d \in Ctrls : c # d /\ Leading(c) /\ Leading(d) /\ lockHolder = d

\* C2 as stated: a controller never has two live invocations of the
\* protected task.
C2_OneLiveTask == \A c \in Ctrls : Cardinality(LiveTasks(c)) <= 1

\* C2, amended: a controller never has two live invocations of the protected
\* task whose contexts are not canceled; the task of an earlier episode, its
\* context canceled, may still be running when a new one is started.
C2_OneUncanceledTask ==
    \A c \in Ctrls :
        Cardinality({i \in LiveTasks(c) : ~Canceled(c, i)}) <= 1

\* A second episode's task runs while the first episode's task, canceled,
\* has not returned.
C2_Witness ==
    \E c \in Ctrls :
        /\ Len(task[c]) = 2 /\ LiveTasks(c) = {1, 2}
        /\ Canceled(c, 1) /\ ~Canceled(c, 2)

\* C3 as stated: the protected task of a controller is running exactly when
\* the controller is Leading.
C3_TaskIffLeading == \A c \in Ctrls : (LiveTasks(c) # {}) <=> Leading(c)

\* C3, amended: a controller has a running task whose context is not canceled
\* exactly when it is Leading and its governing context is not canceled; a
\* task whose context is canceled may still be running after its episode.
C3_UncanceledTaskIffLeading ==
    \A c \in Ctrls :
        (\E i \in LiveTasks(c) : ~Canceled(c, i)) <=> (Leading(c) /\ ~ctxDone[c])

\* A task still runs, its context canceled, after its controller lost the
\* lease and left the episode.
C3_Witness ==
    \E c \in Ctrls :
        /\ pc[c] = "lostWait" /\ ~ctxDone[c]
        /\ LiveTasks(c) = {Len(task[c])} /\ Canceled(c, Len(task[c]))

\* C4: Start has returned only if its governing context is canceled, and it
\* returned nil; while it runs it has returned nothing.
C4_ReturnsNilOnCancel ==
    \A c \in Ctrls :
        /\ pc[c] = "done" => ctxDone[c] /\ ret[c] = "nil"
        /\ pc[c] # "done" => ret[c] = "none"

\* A controller was canceled and returned nil, after two or more Acquire
\* calls of which one gave no token and one began an episode.
C4_Witness ==
    \E c \in Ctrls :
        /\ pc[c] = "done" /\ ret[c] = "nil"
        /\ acquiresCalls[c] >= 2 /\ Len(funcCtx[c]) = 1

\* C5: once a controller's governing context is canceled, the controller
\* reaches Stopped, Start having returned, and the context of every episode
\* it opened is canceled.
C5_CancelStops ==
    \A c \in Ctrls :
        ctxDone[c] ~> (pc[c] = "done" /\ \A i \in DOMAIN funcCtx[c] : funcCtx[c][i])

\* A controller canceled while Leading has stopped, its episode context
\* canceled.
C5_Witness ==
    \E c \in Ctrls :
        /\ pc[c] = "done" /\ ctxDone[c]
        /\ Len(funcCtx[c]) >= 1 /\ \A i \in DOMAIN funcCtx[c] : funcCtx[c][i]

\* The places where Start is blocked in a wait that also selects on the
\* governing context: the startup jitter wait, the retry tick, the renewal tick.
WaitPoints == {"startWait", "retryWait", "maintain"}

\* C6 as stated: a controller whose governing context is canceled while it is
\* blocked at a wait point leaves the wait only towards the end of Start: it
\* goes on to no Acquire call, makes no Renew call and begins no episode.
C6_CancelWins ==
    [][\A c \in Ctrls :
         (ctxDone[c] /\ pc[c] \in WaitPoints) =>
            (pc'[c] \in {pc[c], "retryWait", "done"} /\ ~RenewTick(c))]_vars

\* C8: a failed Renew ends the episode at once with the episode's context
\* canceled; the controller then passes the jitter wait and after it the
\* waitPeriod tick, and only from that tick reaches its next Acquire call; in
\* both waits it calls neither Renew nor Acquire.
C8_LeaseLossOrder ==
    [][\A c \in Ctrls :
         /\ (RenewTick(c) /\ pc'[c] # "maintain") =>
                (pc'[c] = "lostWait" /\ LostLease(c)')
         /\ pc[c] = "lostWait" =>
                (pc'[c] \in {"lostWait", "retryWait"} /\ funcCtx'[c] = funcCtx[c])
         /\ (LostLease(c) /\ pc[c] # "acquire" /\ pc'[c] = "acquire") =>
                pc[c] = "retryWait"
         /\ pc[c] \in {"lostWait", "retryWait"} =>
                (~RenewTick(c) /\ ~AcquireCall(c)
                 /\ (lockHolder' = c => lockHolder = c))]_vars

\* A controller that lost its lease, not canceled, is at its next Acquire call.
C8_Witness ==
    \E c \in Ctrls : pc[c] = "acquire" /\ LostLease(c) /\ ~ctxDone[c]

\* A controller that lost its lease, is not canceled and is at its Acquire
\* call finds the lock free and is granted it in this step.
Reacquires(c) ==
    /\ LostLease(c) /\ ~ctxDone[c] /\ pc[c] = "acquire"
    /\ ~locked /\ lockHolder' = c

\* That one call begins an episode: the call count and the task starts each
\* go up by one and the new task runs.
Restarts(c) ==
    /\ Leading(c)'
    /\ acquiresCalls'[c] = Min(acquiresCalls[c] + 1, MaxAcquires)
    /\ startsCounter' = startsCounter + 1
    /\ Len(task'[c]) = Len(task[c]) + 1
    /\ task'[c][Len(task'[c])] = "running"

\* C9 as stated: a controller that lost its lease makes no Acquire call in
\* its waits, and when its next Acquire call finds the lock free, that one call
\* restarts the task, every earlier task of the controller having returned.
C9_RecoveryAfterStop ==
    [][\A c \in Ctrls :
         /\ (LostLease(c) /\ pc[c] \in {"lostWait", "retryWait"}) =>
                acquiresCalls'[c] = acquiresCalls[c]
         /\ Reacquires(c) =>
                (Restarts(c) /\ \A i \in DOMAIN task[c] : task[c][i] = "returned")]_vars

\* C9: a controller that lost its lease makes no Acquire call in its waits,
\* and when its next Acquire call finds the lock free, that one call restarts
\* the task, the context of every earlier task of the controller having been
\* canceled.
C9_Recovery ==
    [][\A c \in Ctrls :
         /\ (LostLease(c) /\ pc[c] \in {"lostWait", "retryWait"}) =>
                acquiresCalls'[c] = acquiresCalls[c]
         /\ Reacquires(c) =>
                (Restarts(c) /\ \A i \in DOMAIN funcCtx[c] : funcCtx[c][i])]_vars

\* The test's scenario: after one failed renewal the controller holds the
\* lock again by its 2nd Acquire call, its 2nd task running and its 1st
\* returned.
C9_Witness ==
    \E c \in Ctrls :
        /\ Leading(c) /\ ~ctxDone[c] /\ lockHolder = c
        /\ acquiresCalls[c] = 2 /\ startsCounter = 2
        /\ task[c] = <<"returned", "running">>

\* C10 as stated: after an Acquire call that returned an error the controller
\* is in its waitPeriod retry wait, whatever token came with the error; it is
\* not Leading.
C10_ErrorMeansNoLock == \A c \in Ctrls : err[c] => pc[c] = "retryWait"

\* Controller l led an episode and its governing context is canceled or it
\* lost its lease.
FormerLeader(l) == Len(funcCtx[l]) >= 1 /\ (ctxDone[l] \/ LostLease(l))

\* C7 as stated: when a leader was canceled or lost its lease, the lock is
\* free at the backend and another controller is running, not canceled and
\* not Leading, then some controller that is not canceled becomes Leading,
\* its task running, unless that other controller is canceled first (or the
\* run's grants are used up).
C7_LiveLeader ==
    \A c \in Ctrls :
        (/\ \E l \in Ctrls \ {c} : FormerLeader(l)
         /\ ~locked
         /\ ~ctxDone[c] /\ pc[c] \notin {"maintain", "done"})
        ~> (\/ \E d \in Ctrls : Leading(d) /\ ~ctxDone[d] /\ Live(d, Len(task[d]))
            \/ ctxDone[c]
            \/ Episodes >= run.grants)

\* C14: the loop never releases the lock. The lock goes from held to free
\* only by a release from outside or by the backend finding the lease expired
\* at a Renew call; a controller that leaves its episode, by a failed Renew or
\* by cancellation, and a controller that stops, leave the lock as it was.
C14_NeverReleases ==
    [][/\ (locked /\ lockHolder' = NoHolder) =>
               (Release \/ (expired /\ \E c \in Ctrls : RenewTick(c)))
       /\ \A c \in Ctrls :
            /\ (Leading(c) /\ ~Leading(c)') =>
                   (lockHolder' = lockHolder \/ (expired /\ lockHolder' = NoHolder))
            /\ (pc[c] # "done" /\ pc'[c] = "done") => UNCHANGED lockVars]_vars

\* A controller has stopped and the backend still holds the lock for it.
C14_Witness ==
    \E c \in Ctrls : pc[c] = "done" /\ Len(funcCtx[c]) >= 1 /\ lockHolder = c

\* C15: Stopped is absorbing. A stopped controller stays stopped with what it
\* returned, calls neither Acquire nor Renew and opens no episode; canceling a
\* context that is canceled already changes nothing.
C15_StoppedAbsorbing ==
    [][\A c \in Ctrls :
         /\ pc[c] = "done" =>
                /\ pc'[c] = "done" /\ ret'[c] = ret[c] /\ ctxDone'[c]
                /\ funcCtx'[c] = funcCtx[c] /\ Len(task'[c]) = Len(task[c])
                /\ acquiresCalls'[c] = acquiresCalls[c]
                /\ ~AcquireCall(c) /\ ~RenewTick(c)
         /\ (ctxDone[c] /\ Cancel(c)) => UNCHANGED vars]_vars

\* A controller has stopped and another one leads after it.
C15_Witness ==
    \E c, d \in Ctrls :
        /\ pc[c] = "done" /\ Len(funcCtx[c]) = 1
        /\ Leading(d) /\ lockHolder = d /\ ~ctxDone[d]

\* C16: Renew is called only by a controller inside an episode it opened, and
\* Acquire only by a controller that is not Leading: through an episode the
\* Acquire count of its leader stays, and the renewal count moves only while
\* some controller is Leading.
C16_AcquireRenewApart ==
    [][/\ \A c \in Ctrls :
            /\ RenewTick(c) => (Leading(c) /\ Len(funcCtx[c]) >= 1)
            /\ AcquireCall(c) => ~Leading(c)
            /\ acquiresCalls'[c] # acquiresCalls[c] => pc[c] = "acquire"
            /\ (Leading(c) /\ Leading(c)') => acquiresCalls'[c] = acquiresCalls[c]
       /\ renewsCounter' > renewsCounter => \E c \in Ctrls : Leading(c)]_vars

\* A leader has renewed its lease, its Acquire count still 1, while the other
\* controller, which never had a token, has called Acquire.
C16_Witness ==
    \E c, d \in Ctrls :
        /\ Leading(c) /\ renewsCounter = 1 /\ acquiresCalls[c] = 1
        /\ Len(funcCtx[d]) = 0 /\ acquiresCalls[d] >= 1

C18_RetriesForever ==
    \A c \in Ctrls :
        \/ <>ctxDone[c]
        \/ <>[]Leading(c)
        \/ []<><<AcquireCall(c)>>_vars

\* A controller that lost its lease is at an Acquire call again, not
\* canceled, while the other controller holds the lock.
C18_Witness ==
    \E c \in Ctrls :
        /\ pc[c] = "acquire" /\ ~ctxDone[c] /\ LostLease(c)
        /\ locked /\ lockHolder # c

\* C19: a controller has at most one episode context that is not canceled; it
\* opens an episode only when cancel() was called on each of its earlier
\* ones; and when Start returns cancel() was called on every one.
C19_OneOpenEpisode ==
    [][\A c \in Ctrls :
         /\ Cardinality({i \in DOMAIN funcCtx'[c] : ~Canceled(c, i)'}) <= 1
         /\ Len(funcCtx'[c]) > Len(funcCtx[c]) =>
                \A i \in DOMAIN funcCtx[c] : funcCtx[c][i]
         /\ pc'[c] = "done" => \A i \in DOMAIN funcCtx'[c] : funcCtx'[c][i]]_vars

\* A controller is in its second episode, not canceled.
C19_Witness ==
    \E c \in Ctrls :
        Leading(c) /\ ~ctxDone[c] /\ funcCtx[c] = <<TRUE, FALSE>>

\* An Acquire call of c that returns a token.
TokenStep(c) == \E r \in AcquireResults(c) : r.token # "" /\ AcquireStep(c, r)

\* C20: a controller starts the protected task in exactly the steps in which
\* its Acquire call returns a token, once each time: not on an empty token
\* and not on a Renew call.
C20_StartPerToken ==
    [][\A c \in Ctrls :
         /\ TokenStep(c) =>
                (Len(task'[c]) = Len(task[c]) + 1 /\ task'[c][Len(task'[c])] = "running")
         /\ Len(task'[c]) # Len(task[c]) => TokenStep(c)
         /\ RenewTick(c) => Len(task'[c]) = Len(task[c])]_vars

\* A controller started the task twice in two Acquire calls; the other one
\* called Acquire and started none.
C20_Witness ==
    \E c, d \in Ctrls :
        /\ Len(task[c]) = 2 /\ acquiresCalls[c] = 2
        /\ Len(task[d]) = 0 /\ acquiresCalls[d] >= 1

\* The run of TestAcquireLock_MultipleInstances up to its 30th millisecond:
\* hac1 without and hac2 with a startup delay, a backend that does not fail,
\* and no context canceled.
TestSchedule ==
    /\ ~run.faulty
    /\ randomDelay("hac1") = 0 /\ randomDelay("hac2") = hac2Delay
    /\ \A c \in Ctrls : ~ctxDone[c]

\* C11: in the test's run, at time 4 hac1 holds the lock after 1 Acquire call
\* and no renewal, its task running, and hac2 has not called Acquire; at time
\* 10 there was 1 renewal and 1 Acquire call of hac2; at time 15, 2 renewals
\* and still 1 call of hac2; at time 30, 4 renewals and 3 calls of hac2; from
\* time 4 on hac1 holds the lock with 1 Acquire call and the task was started
\* once.
C11_TestTimeline ==
    TestSchedule =>
        /\ startsCounter <= 1
        /\ now >= 4 =>
              /\ lockHolder = "hac1" /\ acquiresCalls["hac1"] = 1
              /\ startsCounter = 1 /\ task["hac1"] = <<"running">>
              /\ task["hac2"] = <<>>
        /\ now = 4 => (renewsCounter = 0 /\ acquiresCalls["hac2"] = 0)
        /\ now = 10 => (renewsCounter = 1 /\ acquiresCalls["hac2"] = 1)
        /\ now = 15 => (renewsCounter = 2 /\ acquiresCalls["hac2"] = 1)
        /\ now = 30 => (renewsCounter = 4 /\ acquiresCalls["hac2"] = 3)

\* The test's run has reached time 30.
C11_Witness ==
    /\ TestSchedule /\ now = 30
    /\ lockHolder = "hac1" /\ renewsCounter = 4 /\ acquiresCalls["hac2"] = 3

\* C12: a controller's first Acquire call comes when its startup jitter wait
\* ends, and every later one when a waitPeriod ticker fires that was started
\* when the earlier call returned without a token, or when the episode ended
\* by cancellation, or when the jitter wait after a lost lease ended; that
\* jitter wait, of randomDelay, starts at the failed Renew. A jitter wait ends
\* early only by cancellation, and no step of a controller takes time.
C12_RetryCadence ==
    [][\A c \in Ctrls :
         /\ (pc[c] = "startWait" /\ pc'[c] # "startWait") =>
                (pc'[c] = "acquire" /\ (now = randomDelay(c) \/ ctxDone[c]))
         /\ (pc[c] # "acquire" /\ pc'[c] = "acquire") =>
                pc[c] \in {"startWait", "retryWait"}
         /\ (pc[c] # "retryWait" /\ pc'[c] = "retryWait") =>
                timer'[c] = now + waitPeriod
         /\ (pc[c] = "retryWait" /\ pc'[c] = "retryWait") => timer'[c] = timer[c]
         /\ (pc[c] = "retryWait" /\ pc'[c] = "acquire") =>
                (now = timer[c] /\ ~ctxDone[c])
         /\ (pc[c] # "lostWait" /\ pc'[c] = "lostWait") =>
                (pc[c] = "maintain" /\ timer'[c] = now + randomDelay(c))
         /\ (pc[c] = "lostWait" /\ pc'[c] = "lostWait") => timer'[c] = timer[c]
         /\ (pc[c] = "lostWait" /\ pc'[c] # "lostWait") =>
                (pc'[c] = "retryWait" /\ (now = timer[c] \/ ctxDone[c]))
         /\ pc'[c] # pc[c] => now' = now]_vars

\* A controller with a startup delay lost its lease at a failed Renew, waited
\* randomDelay and then waitPeriod, and is at its next Acquire call.
C12_Witness ==
    \E c \in Ctrls :
        /\ pc[c] = "acquire" /\ ~ctxDone[c] /\ LostLease(c)
        /\ randomDelay(c) > 0 /\ now = timer[c] /\ now >= renewalPeriod + randomDelay(c) + waitPeriod

\* C13 as stated: the controllers NewHALockController builds have
\* 0 < renewalPeriod < lease < waitPeriod.
C13_PolicyOrder ==
    /\ 0 < renewalPeriod
    /\ renewalPeriod < run.lease
    /\ run.lease < waitPeriod
====
